---- MODULE Spec2Model ----
(***************************************************************************)
(* Model of the hierarchical_transformer package:                          *)
(*   processor.py   DataTransformer.transform and its helpers              *)
(*   validation.py  DataValidator.validate                                 *)
(*                                                                         *)
(* Strings are sequences of one-character strings, so that str.strip,      *)
(* str.lower and str.replace are computed character by character.  Rows,   *)
(* columns and offsets are 0-based as in the source; Cell converts to the  *)
(* 1-based sequences of TLA+.                                              *)
(***************************************************************************)
EXTENDS Integers, Sequences, FiniteSets, TLC

VARIABLES
    df,          \* transform: the grid passed in (sequence of rows of cells)
    config,      \* transform: the TransformerConfig passed in
    pc,          \* transform: position inside transform()
    work,        \* transform: the local df (rebound by the initial transformations)
    i,           \* _extract_records: scan index
    records,     \* _extract_records: the records list
    visited,     \* history: rows for which the scan took the record-start branch
    extracted,   \* history: what _extract_single_record returned at each of them
    trace,       \* history: the steps of transform() executed so far
    error,       \* the exception transform() raised ("" when none)
    result,      \* the table transform() returned
    label,       \* _clean_column_names: the column label given
    once,        \* _clean_column_names applied once
    twice,       \* _clean_column_names applied to its own output
    cleanPc,     \* position of the cleaning run
    heap,        \* validator: the list objects allocated so far (reference -> list)
    selfErrors,  \* validator: reference held by self.errors
    selfWarnings,\* validator: reference held by self.warnings
    returned     \* validator: the ValidationResults returned so far, with their inputs

vars == <<df, config, pc, work, i, records, visited, extracted, trace, error,
          result, label, once, twice, cleanPc, heap, selfErrors, selfWarnings, returned>>

transformVars ==
    <<df, config, pc, work, i, records, visited, extracted, trace, error, result>>
cleanVars == <<label, once, twice, cleanPc>>
validatorVars == <<heap, selfErrors, selfWarnings, returned>>

(***************************************************************************)
(* Bounds of the model                                                     *)
(***************************************************************************)
MaxRows == 3
MaxRadius == 3
MaxLabelLen == 3
MaxCalls == 3

(***************************************************************************)
(* Python values                                                           *)
(***************************************************************************)
None == [isNone |-> TRUE, v |-> <<>>]
Some(x) == [isNone |-> FALSE, v |-> x]

\* {} as a dict: no keys
EmptyDict == [k \in {} |-> <<>>]

Min(S) == CHOOSE x \in S : \A y \in S : x <= y
MinOf(a, b) == IF a <= b THEN a ELSE b

Whitespace == {" ", "\t", "\n"}

\* str.strip() with no argument: drop leading and trailing whitespace
RECURSIVE LStrip(_)
LStrip(s) ==
    IF s = <<>> THEN <<>>
    ELSE IF Head(s) \in Whitespace THEN LStrip(Tail(s)) ELSE s

RECURSIVE RStrip(_)
RStrip(s) ==
    IF s = <<>> THEN <<>>
    ELSE IF s[Len(s)] \in Whitespace THEN RStrip(SubSeq(s, 1, Len(s) - 1)) ELSE s

Strip(s) == RStrip(LStrip(s))

\* pd.notnull(val)
NotNull(cell) == ~cell.isNone

(***************************************************************************)
(* Grid access (pandas iloc): 0-based row and column positions             *)
(***************************************************************************)
NumRows(g) == Len(g)
NumCols(g) == IF Len(g) = 0 THEN 0 ELSE Len(g[1])
Cell(g, r, c) == g[r + 1][c + 1]
Row(g, r) == g[r + 1]

\* bool(x) of an optional str / list / dict: None and empty are falsy
Truthy(opt) == ~opt.isNone /\ opt.v # <<>>
TruthyDict(opt) == ~opt.isNone /\ DOMAIN opt.v # {}

(***************************************************************************)
(* DataTransformer._is_record_start                                        *)
(***************************************************************************)
\* aliases = config.field_aliases or {}
AliasDict(cfg) == IF cfg.field_aliases.isNone THEN EmptyDict ELSE cfg.field_aliases.v

\* {identifier} | {aliases.get(identifier, '')}
ValidIdentifiers(cfg) ==
    LET identifier == cfg.identifier_field.v
        aliases == AliasDict(cfg)
    IN  {identifier} \cup
        {IF identifier \in DOMAIN aliases THEN aliases[identifier] ELSE <<>>}

IsRecordStart(row, cfg) ==
    \E c \in 1..Len(row) :
        NotNull(row[c]) /\ Strip(row[c].v) \in ValidIdentifiers(cfg)

(***************************************************************************)
(* DataTransformer._find_field_value                                       *)
(***************************************************************************)
\* the for loop over df.columns: the first column holding a label of the field
RECURSIVE FindFieldCol(_, _, _, _)
FindFieldCol(g, row_idx, field_aliases, col) ==
    IF col >= NumCols(g) THEN None
    ELSE IF NotNull(Cell(g, row_idx, col))
            /\ Strip(Cell(g, row_idx, col).v) \in field_aliases
         THEN Some(col)
         ELSE FindFieldCol(g, row_idx, field_aliases, col + 1)

\* for col_offset in range(1, min(column_search_radius, df.shape[1] - col_idx))
RECURSIVE SearchRight(_, _, _, _, _)
SearchRight(g, row_idx, col_idx, col_offset, stop) ==
    IF col_offset >= stop THEN None
    ELSE LET value == Cell(g, row_idx, col_idx + col_offset) IN
         IF NotNull(value) /\ Strip(value.v) # <<>>
         THEN Some(Strip(value.v))
         ELSE SearchRight(g, row_idx, col_idx, col_offset + 1, stop)

\* for i in range(row_idx + 1, min(row_idx + search_radius, len(df)))
RECURSIVE SearchDown(_, _, _, _)
SearchDown(g, k, col_idx, stop) ==
    IF k >= stop THEN None
    ELSE LET value == Cell(g, k, col_idx) IN
         IF NotNull(value) /\ Strip(value.v) # <<>>
         THEN Some(Strip(value.v))
         ELSE SearchDown(g, k + 1, col_idx, stop)

\* variant: the downward search is tried before the rightward one
FindFieldValueDownFirst(g, row_idx, field_aliases, cfg) ==
    LET field_col == FindFieldCol(g, row_idx, field_aliases, 0) IN
    IF field_col.isNone THEN None
    ELSE LET col_idx == field_col.v
             down == SearchDown(g, row_idx + 1, col_idx,
                         MinOf(row_idx + cfg.search_radius, NumRows(g)))
         IN  IF ~down.isNone THEN down
             ELSE SearchRight(g, row_idx, col_idx, 1,
                      MinOf(cfg.column_search_radius, NumCols(g) - col_idx))

FindFieldValue(g, row_idx, field_aliases, cfg) ==
    LET field_col == FindFieldCol(g, row_idx, field_aliases, 0) IN
    IF field_col.isNone THEN None
    ELSE LET col_idx == field_col.v
             right == SearchRight(g, row_idx, col_idx, 1,
                          MinOf(cfg.column_search_radius, NumCols(g) - col_idx))
         IN  IF ~right.isNone THEN right
             ELSE SearchDown(g, row_idx + 1, col_idx,
                      MinOf(row_idx + cfg.search_radius, NumRows(g)))

(***************************************************************************)
(* DataTransformer._extract_single_record                                  *)
(***************************************************************************)
\* {field} plus, when field_aliases is truthy, the keys mapped to field
FieldAliases(field, cfg) ==
    {field} \cup
    (IF TruthyDict(cfg.field_aliases)
     THEN {k \in DOMAIN cfg.field_aliases.v : cfg.field_aliases.v[k] = field}
     ELSE {})

\* variant: the window is one row longer (range(search_radius + 1))
RECURSIVE SearchWindowOneMore(_, _, _, _, _, _)
SearchWindowOneMore(g, start_idx, total_rows, field_aliases, cfg, row_offset) ==
    IF row_offset >= cfg.search_radius + 1 THEN None
    ELSE LET row_idx == start_idx + row_offset IN
         IF row_idx >= total_rows THEN None
         ELSE LET value == FindFieldValue(g, row_idx, field_aliases, cfg) IN
              IF ~value.isNone THEN value
              ELSE SearchWindowOneMore(g, start_idx, total_rows, field_aliases,
                                       cfg, row_offset + 1)

\* for row_offset in range(config.search_radius), with its two breaks
RECURSIVE SearchWindow(_, _, _, _, _, _)
SearchWindow(g, start_idx, total_rows, field_aliases, cfg, row_offset) ==
    IF row_offset >= cfg.search_radius THEN None
    ELSE LET row_idx == start_idx + row_offset IN
         IF row_idx >= total_rows THEN None
         ELSE LET value == FindFieldValue(g, row_idx, field_aliases, cfg) IN
              IF ~value.isNone THEN value
              ELSE SearchWindow(g, start_idx, total_rows, field_aliases, cfg,
                                row_offset + 1)

\* for field in config.target_fields, filling the dict called record
RECURSIVE ExtractFields(_, _, _, _, _, _)
ExtractFields(g, start_idx, total_rows, cfg, k, record) ==
    IF k > Len(cfg.target_fields.v) THEN record
    ELSE LET field == cfg.target_fields.v[k]
             value == SearchWindow(g, start_idx, total_rows,
                                   FieldAliases(field, cfg), cfg, 0)
         IN  ExtractFields(g, start_idx, total_rows, cfg, k + 1,
                 IF ~value.isNone
                 THEN [f \in DOMAIN record \cup {field} |->
                          IF f = field THEN value.v ELSE record[f]]
                 ELSE record)

ExtractSingleRecord(g, start_idx, total_rows, cfg) ==
    ExtractFields(g, start_idx, total_rows, cfg, 1, EmptyDict)

(***************************************************************************)
(* DataTransformer._find_next_record_start                                 *)
(***************************************************************************)
\* variant: the search starts one row early, at the record start itself
RECURSIVE FindNextRecordStartFromSame(_, _, _, _)
FindNextRecordStartFromSame(g, start_idx, total_rows, cfg) ==
    LET from == start_idx - 1 IN
    IF from >= total_rows THEN total_rows
    ELSE IF IsRecordStart(Row(g, from), cfg) THEN from
         ELSE FindNextRecordStartFromSame(g, from + 2, total_rows, cfg)

RECURSIVE FindNextRecordStart(_, _, _, _)
FindNextRecordStart(g, start_idx, total_rows, cfg) ==
    IF start_idx >= total_rows THEN total_rows
    ELSE IF IsRecordStart(Row(g, start_idx), cfg) THEN start_idx
         ELSE FindNextRecordStart(g, start_idx + 1, total_rows, cfg)

(***************************************************************************)
(* DataTransformer._clean_column_names                                     *)
(***************************************************************************)
\* str.lower(), on the letters the model uses
LowerChar(c) ==
    CASE c = "A" -> "a" [] c = "I" -> "i" [] c = "N" -> "n" [] c = "T" -> "t"
      [] c = "C" -> "c" [] c = "F" -> "f" [] c = "X" -> "x" [] OTHER -> c

Lower(s) == [k \in 1..Len(s) |-> LowerChar(s[k])]

\* str.replace(pat, rep) with a literal pattern: leftmost, non-overlapping
RECURSIVE ReplaceAll(_, _, _)
ReplaceAll(s, pat, rep) ==
    IF Len(s) < Len(pat) THEN s
    ELSE IF SubSeq(s, 1, Len(pat)) = pat
         THEN rep \o ReplaceAll(SubSeq(s, Len(pat) + 1, Len(s)), pat, rep)
         ELSE <<Head(s)>> \o ReplaceAll(Tail(s), pat, rep)

RECURSIVE DropUnderscores(_)
DropUnderscores(s) ==
    IF s # <<>> /\ Head(s) = "_" THEN DropUnderscores(Tail(s)) ELSE s

\* str.replace('__+', '_', regex=True): every run of two or more '_' becomes one
RECURSIVE CollapseUnderscores(_)
CollapseUnderscores(s) ==
    IF s = <<>> THEN <<>>
    ELSE IF Len(s) >= 2 /\ s[1] = "_" /\ s[2] = "_"
         THEN <<"_">> \o CollapseUnderscores(DropUnderscores(s))
         ELSE <<Head(s)>> \o CollapseUnderscores(Tail(s))

CleanColumnName(s) ==
    LET s1 == Strip(s)
        s2 == ReplaceAll(s1, <<"\n">>, <<>>)
        s3 == Lower(s2)
        s4 == ReplaceAll(s3, <<" ">>, <<"_">>)
        s5 == ReplaceAll(s4, <<"_", "_">>, <<"_">>)
        s6 == ReplaceAll(s5, <<"/">>, <<"_">>)
        s7 == ReplaceAll(s6, <<":">>, <<>>)
    IN  CollapseUnderscores(s7)

(***************************************************************************)
(* DataTransformer._validate_config                                        *)
(***************************************************************************)
IdentifierError == "ValueError: identifier_field must be specified in config"
TargetsError == "ValueError: target_fields must be specified in config"

\* variant: only identifier_field is checked
ValidateConfigIdentifierOnly(cfg) ==
    IF ~Truthy(cfg.identifier_field) THEN IdentifierError ELSE ""

\* the exception _validate_config raises, "" when it returns
ValidateConfig(cfg) ==
    IF ~Truthy(cfg.identifier_field) THEN IdentifierError
    ELSE IF ~Truthy(cfg.target_fields) THEN TargetsError
    ELSE ""

(***************************************************************************)
(* DataTransformer._apply_initial_transformations                          *)
(***************************************************************************)
\* df.iloc[skip_rows:]
SkipRows(g, n) == SubSeq(g, n + 1, Len(g))

RECURSIVE DropFromRow(_, _, _)
DropFromRow(row, cols, c) ==
    IF c >= Len(row) THEN <<>>
    ELSE (IF c \in cols THEN <<>> ELSE <<row[c + 1]>>) \o DropFromRow(row, cols, c + 1)

\* df.drop(df.columns[drop_columns], axis=1)
DropColumns(g, cols) == [r \in 1..Len(g) |-> DropFromRow(g[r], cols, 0)]

SeqRange(s) == {s[k] : k \in 1..Len(s)}

ApplyInitialTransformations(g, cfg) ==
    LET skipped == IF cfg.skip_rows # 0 THEN SkipRows(g, cfg.skip_rows) ELSE g
    IN  IF Truthy(cfg.drop_columns)
        THEN DropColumns(skipped, SeqRange(cfg.drop_columns.v))
        ELSE skipped

(***************************************************************************)
(* DataTransformer._create_final_dataframe                                 *)
(***************************************************************************)
\* the keys of one record in insertion order (the order of target_fields)
RECURSIVE RecordKeys(_, _, _)
RecordKeys(record, fields, k) ==
    IF k > Len(fields) THEN <<>>
    ELSE (IF fields[k] \in DOMAIN record THEN <<fields[k]>> ELSE <<>>)
         \o RecordKeys(record, fields, k + 1)

RECURSIVE AppendNew(_, _)
AppendNew(cols, keys) ==
    IF keys = <<>> THEN cols
    ELSE AppendNew(IF Head(keys) \in SeqRange(cols) THEN cols
                   ELSE Append(cols, Head(keys)), Tail(keys))

\* pd.DataFrame(records).columns: the keys in order of first appearance
RECURSIVE FrameColumns(_, _, _, _)
FrameColumns(recs, fields, k, cols) ==
    IF k > Len(recs) THEN cols
    ELSE FrameColumns(recs, fields, k + 1,
                      AppendNew(cols, RecordKeys(recs[k], fields, 1)))

CreateFinalDataframe(recs, cfg) ==
    LET cols == FrameColumns(recs, cfg.target_fields.v, 1, <<>>)
    IN  [columns |-> [k \in 1..Len(cols) |-> CleanColumnName(cols[k])],
         rows |-> recs]

AccessorError == "AttributeError: Can only use .str accessor with string values"
NoTable == [columns |-> <<>>, rows |-> <<>>]

(***************************************************************************)
(* DataTransformer._extract_records as a function of the grid              *)
(***************************************************************************)
\* variant: the record is appended without the `if record:` test
AppendRecordAlways(recs, record) == Append(recs, record)

\* records.append(record) under `if record:`
AppendRecord(recs, record) ==
    IF DOMAIN record # {} THEN Append(recs, record) ELSE recs

\* the while loop from index k on, recs being the records so far
RECURSIVE ScanFrom(_, _, _, _)
ScanFrom(g, cfg, k, recs) ==
    IF k >= NumRows(g) THEN recs
    ELSE IF IsRecordStart(Row(g, k), cfg)
         THEN ScanFrom(g, cfg, FindNextRecordStart(g, k + 1, NumRows(g), cfg),
                       AppendRecord(recs, ExtractSingleRecord(g, k, NumRows(g), cfg)))
         ELSE ScanFrom(g, cfg, k + 1, recs)

ExtractRecords(g, cfg) == ScanFrom(g, cfg, 0, <<>>)

(***************************************************************************)
(* Inputs of transform: grids and configs                                  *)
(***************************************************************************)
CustomerID == <<"I">>       \* "Customer ID"
Name == <<"N">>             \* "Name"
Total == <<"T">>            \* "Total"
CustomerNumber == <<"C">>   \* "Customer Number", an alias of Customer ID
FullName == <<"F">>         \* "Full Name", an alias of Name
Other == <<"X">>            \* a string that names no field

Null == None                \* a missing cell (NaN / None)
Empty == Some(<<>>)         \* the cell ""
Blank == Some(<<" ">>)      \* the cell " "

\* the rows grids are built from (three columns)
RowChoices ==
    { <<Some(CustomerID), Some(<<"1">>), Empty>>,            \* as in the test fixture
      <<Some(Name), Some(<<"2">>), Empty>>,                  \* as in the test fixture
      <<Some(CustomerID), Some(<<"1">>), Null>>,
      <<Some(Name), Null, Some(<<" ", "2", " ">>)>>,         \* value two columns right
      <<Some(CustomerNumber), Some(<<"3">>), Null>>,         \* a field by its alias
      <<Some(<<" ", "I", " ">>), Null, Null>>,               \* padded label, no value
      <<Null, Null, Null>> }

RECURSIVE GridsOfHeight(_)
GridsOfHeight(n) ==
    IF n = 0 THEN {<<>>}
    ELSE {Append(g, r) : g \in GridsOfHeight(n - 1), r \in RowChoices}

Grids == UNION {GridsOfHeight(n) : n \in 0..MaxRows}

DefaultSearchRadius == 10
DefaultColumnSearchRadius == 5

TestAliases ==
    [k \in {CustomerNumber, FullName} |->
        IF k = CustomerNumber THEN CustomerID ELSE Name]
ReverseAliases == [k \in {CustomerID} |-> Other]

AliasChoices == {None, Some(TestAliases), Some(ReverseAliases)}

BaseConfig ==
    [skip_rows |-> 0, drop_columns |-> None, date_columns |-> None,
     identifier_field |-> Some(CustomerID),
     target_fields |-> Some(<<CustomerID, Name>>),
     field_aliases |-> None,
     search_radius |-> DefaultSearchRadius,
     column_search_radius |-> DefaultColumnSearchRadius]

\* configs that vary the search
SearchConfigs ==
    {[BaseConfig EXCEPT !.search_radius = r, !.column_search_radius = c,
                        !.field_aliases = a] :
        r \in 1..MaxRadius, c \in {2, DefaultColumnSearchRadius}, a \in AliasChoices}

\* configs that vary the initial transformations
InitialConfigs ==
    {[BaseConfig EXCEPT !.skip_rows = 1],
     [BaseConfig EXCEPT !.drop_columns = Some(<<1>>)],
     [BaseConfig EXCEPT !.drop_columns = Some(<<>>)]}

\* configs _validate_config rejects
InvalidConfigs ==
    {[BaseConfig EXCEPT !.identifier_field = None],
     [BaseConfig EXCEPT !.identifier_field = Some(<<>>)],
     [BaseConfig EXCEPT !.target_fields = None],
     [BaseConfig EXCEPT !.target_fields = Some(<<>>)],
     [BaseConfig EXCEPT !.identifier_field = None, !.target_fields = None]}

\* the grid and the config of spec.md section 8 and of test_search_radius
ExampleGrid ==
    << <<Some(CustomerID), Some(<<"1">>)>>,
       <<Some(Name), Some(<<"2">>)>>,
       <<Some(Total), Some(<<"5">>)>> >>

ExampleConfigs ==
    {[BaseConfig EXCEPT !.target_fields = Some(<<CustomerID, Name, Total>>),
                        !.search_radius = r] : r \in 1..MaxRadius}

\* drop_columns names columns the grid has
DropsExist(g, cfg) ==
    Truthy(cfg.drop_columns) =>
        \A c \in SeqRange(cfg.drop_columns.v) : c < NumCols(g)

TransformInputs ==
    {inp \in Grids \X (SearchConfigs \cup InitialConfigs \cup InvalidConfigs) :
        DropsExist(inp[1], inp[2])}
    \cup ({ExampleGrid} \X ExampleConfigs)

(***************************************************************************)
(* DataTransformer.transform, step by step                                 *)
(***************************************************************************)
TransformInit ==
    /\ \E inp \in TransformInputs : df = inp[1] /\ config = inp[2]
    /\ pc = "validate_config"
    /\ work = df
    /\ i = 0
    /\ records = <<>>
    /\ visited = <<>>
    /\ extracted = <<>>
    /\ trace = <<>>
    /\ error = ""
    /\ result = NoTable

CleanIdle ==
    label = <<>> /\ once = <<>> /\ twice = <<>> /\ cleanPc = "idle"

ValidatorIdle ==
    heap = <<>> /\ selfErrors = 0 /\ selfWarnings = 0 /\ returned = <<>>

TransformIdle ==
    /\ df = <<>> /\ config = BaseConfig /\ pc = "idle" /\ work = <<>> /\ i = 0
    /\ records = <<>> /\ visited = <<>> /\ extracted = <<>> /\ trace = <<>>
    /\ error = ""
    /\ result = NoTable

Init == TransformInit /\ CleanIdle /\ ValidatorIdle

\* self._validate_config(config) raises
ValidateConfigRaises ==
    /\ pc = "validate_config"
    /\ ValidateConfig(config) # ""
    /\ error' = ValidateConfig(config)
    /\ pc' = "raised"
    /\ trace' = Append(trace, "validate_config")
    /\ UNCHANGED <<df, config, work, i, records, visited, extracted, result,
                   cleanVars, validatorVars>>

\* self._validate_config(config) returns
ValidateConfigPasses ==
    /\ pc = "validate_config"
    /\ ValidateConfig(config) = ""
    /\ pc' = "initial_transformations"
    /\ trace' = Append(trace, "validate_config")
    /\ UNCHANGED <<df, config, work, i, records, visited, extracted, error, result,
                   cleanVars, validatorVars>>

\* df = self._apply_initial_transformations(df, config); then _extract_records starts
InitialTransformations ==
    /\ pc = "initial_transformations"
    /\ work' = ApplyInitialTransformations(work, config)
    /\ i' = 0
    /\ records' = <<>>
    /\ pc' = "extract_records"
    /\ trace' = Append(trace, "initial_transformations")
    /\ UNCHANGED <<df, config, visited, extracted, error, result,
                   cleanVars, validatorVars>>

\* one iteration of the while loop, the row at i being a record start
ScanRecordStart ==
    /\ pc = "extract_records"
    /\ i < NumRows(work)
    /\ IsRecordStart(Row(work, i), config)
    /\ records' = AppendRecord(records,
                      ExtractSingleRecord(work, i, NumRows(work), config))
    /\ i' = FindNextRecordStart(work, i + 1, NumRows(work), config)
    /\ visited' = Append(visited, i)
    /\ extracted' = Append(extracted,
                        ExtractSingleRecord(work, i, NumRows(work), config))
    /\ trace' = Append(trace, "record_start")
    /\ UNCHANGED <<df, config, pc, work, error, result,
                   cleanVars, validatorVars>>

\* one iteration of the while loop, the row at i not being a record start
ScanOtherRow ==
    /\ pc = "extract_records"
    /\ i < NumRows(work)
    /\ ~IsRecordStart(Row(work, i), config)
    /\ i' = i + 1
    /\ trace' = Append(trace, "other_row")
    /\ UNCHANGED <<df, config, pc, work, records, visited, extracted, error, result,
                   cleanVars, validatorVars>>

\* the while loop ends and _extract_records returns records
ScanDone ==
    /\ pc = "extract_records"
    /\ i >= NumRows(work)
    /\ pc' = "final_dataframe"
    /\ trace' = Append(trace, "extract_records")
    /\ UNCHANGED <<df, config, work, i, records, visited, extracted, error, result,
                   cleanVars, validatorVars>>

\* processed_df = self._create_final_dataframe(records, config); return it
FinalDataframeReturns ==
    /\ pc = "final_dataframe"
    /\ result' = CreateFinalDataframe(records, config)
    /\ pc' = "returned"
    /\ trace' = Append(trace, "final_dataframe")
    /\ UNCHANGED <<df, config, work, i, records, visited, extracted, error,
                   cleanVars, validatorVars>>

\* pd.DataFrame([]) has no string column labels: whether df.columns.str is then
\* accepted depends on the pandas the program runs with, so both outcomes are kept
FinalDataframeRaises ==
    /\ pc = "final_dataframe"
    /\ records = <<>>
    /\ error' = AccessorError
    /\ pc' = "raised"
    /\ trace' = Append(trace, "final_dataframe")
    /\ UNCHANGED <<df, config, work, i, records, visited, extracted, result,
                   cleanVars, validatorVars>>

Next ==
    \/ ValidateConfigRaises
    \/ ValidateConfigPasses
    \/ InitialTransformations
    \/ ScanRecordStart
    \/ ScanOtherRow
    \/ ScanDone
    \/ FinalDataframeReturns
    \/ FinalDataframeRaises

Spec == Init /\ [][Next]_vars

(***************************************************************************)
(* _clean_column_names applied to a label, and again to its own output     *)
(***************************************************************************)
CleanAlphabet == {"a", "A", " ", "\t", "\n", "_", "/", ":"}

RECURSIVE LabelsOfLen(_)
LabelsOfLen(n) ==
    IF n = 0 THEN {<<>>}
    ELSE {Append(s, c) : s \in LabelsOfLen(n - 1), c \in CleanAlphabet}

Labels == UNION {LabelsOfLen(n) : n \in 0..MaxLabelLen}

CleanInit ==
    /\ label \in Labels
    /\ once = <<>>
    /\ twice = <<>>
    /\ cleanPc = "start"
    /\ TransformIdle
    /\ ValidatorIdle

CleanOnce ==
    /\ cleanPc = "start"
    /\ once' = CleanColumnName(label)
    /\ cleanPc' = "once"
    /\ UNCHANGED <<label, twice, transformVars, validatorVars>>

CleanTwice ==
    /\ cleanPc = "once"
    /\ twice' = CleanColumnName(once)
    /\ cleanPc' = "twice"
    /\ UNCHANGED <<label, once, transformVars, validatorVars>>

CleanNext ==
    \/ CleanOnce
    \/ CleanTwice

SpecClean == CleanInit /\ [][CleanNext]_vars

(***************************************************************************)
(* DataValidator                                                           *)
(***************************************************************************)
Digits == {"0", "1", "2", "3", "4", "5", "6", "7", "8", "9"}

\* str.isdigit(): non-empty and every character a digit
IsDigit(s) == s # <<>> /\ \A k \in 1..Len(s) : s[k] \in Digits

\* pd.isna(x) or str(x).replace('.', '').replace('-', '').isdigit()
NumericLike(cell) ==
    cell.isNone
    \/ IsDigit(ReplaceAll(ReplaceAll(cell.v, <<".">>, <<>>), <<"-">>, <<>>))

\* the positions k (0-based, in order) of a column's cells that satisfy Bad
RECURSIVE RowsWhere(_, _, _)
RowsWhere(cells, Bad(_, _), k) ==
    IF k > Len(cells) THEN <<>>
    ELSE (IF Bad(cells, k) THEN <<k - 1>> ELSE <<>>) \o RowsWhere(cells, Bad, k + 1)

Message(kind, column, columns, rows) ==
    [kind |-> kind, column |-> column, columns |-> columns, rows |-> rows]

\* _validate_required_columns: the errors it appends
ValidateRequiredColumns(vdf, required_columns) ==
    LET missing_columns ==
            SelectSeq(required_columns, LAMBDA col : col \notin SeqRange(vdf.columns))
    IN  IF missing_columns # <<>>
        THEN <<Message("Missing required columns", "", missing_columns, <<>>)>>
        ELSE <<>>

\* _validate_numeric_columns: the errors it appends
RECURSIVE ValidateNumericColumns(_, _, _)
ValidateNumericColumns(vdf, numeric_columns, k) ==
    IF k > Len(numeric_columns) THEN <<>>
    ELSE LET column == numeric_columns[k]
             non_numeric ==
                 IF column \in SeqRange(vdf.columns)
                 THEN RowsWhere(vdf.data[column],
                                LAMBDA cells, j : ~NumericLike(cells[j]), 1)
                 ELSE <<>>
         IN  (IF non_numeric # <<>>
              THEN <<Message("Non-numeric values found", column, <<>>, non_numeric)>>
              ELSE <<>>)
             \o ValidateNumericColumns(vdf, numeric_columns, k + 1)

\* _validate_unique_columns: the errors it appends
RECURSIVE ValidateUniqueColumns(_, _, _)
ValidateUniqueColumns(vdf, unique_columns, k) ==
    IF k > Len(unique_columns) THEN <<>>
    ELSE LET column == unique_columns[k]
             duplicates ==
                 IF column \in SeqRange(vdf.columns)
                 THEN RowsWhere(vdf.data[column],
                                LAMBDA cells, j : \E h \in 1..(j - 1) : cells[h] = cells[j],
                                1)
                 ELSE <<>>
         IN  (IF duplicates # <<>>
              THEN <<Message("Duplicate values found", column, <<>>, duplicates)>>
              ELSE <<>>)
             \o ValidateUniqueColumns(vdf, unique_columns, k + 1)

\* list.append on the list object at ref, once per message
Extend(h, ref, msgs) == [h EXCEPT ![ref] = h[ref] \o msgs]

\* variant: the list object the attribute holds is emptied in place
ClearedList(h, ref) == [heap |-> [h EXCEPT ![ref] = <<>>], ref |-> ref]

\* self.errors = [] / self.warnings = []: a new list object, bound to the attribute
FreshList(h, ref) == [heap |-> Append(h, <<>>), ref |-> Len(h) + 1]

\* DataValidator.validate: the heap, the attributes and the result it leaves.
\* The rule sets enumerated below hold required_columns, numeric_columns and
\* unique_columns; the other keys are absent and their branches are not taken.
Validate(h, errs, warns, vdf, rules) ==
    LET e == FreshList(h, errs)
        w == FreshList(e.heap, warns)
        h1 == IF ~rules.required_columns.isNone
              THEN Extend(w.heap, e.ref,
                          ValidateRequiredColumns(vdf, rules.required_columns.v))
              ELSE w.heap
        h2 == IF ~rules.numeric_columns.isNone
              THEN Extend(h1, e.ref,
                          ValidateNumericColumns(vdf, rules.numeric_columns.v, 1))
              ELSE h1
        h3 == IF ~rules.unique_columns.isNone
              THEN Extend(h2, e.ref,
                          ValidateUniqueColumns(vdf, rules.unique_columns.v, 1))
              ELSE h2
    IN  [heap |-> h3, errors |-> e.ref, warnings |-> w.ref,
         result |-> [is_valid |-> Len(h3[e.ref]) = 0,
                     errors |-> e.ref, warnings |-> w.ref]]

Frame(columns, data) == [columns |-> columns, data |-> data]

ValidatorFrames ==
    { Frame(<<"id", "amount">>,
            [c \in {"id", "amount"} |->
                IF c = "id" THEN <<Some(<<"1">>), Some(<<"2">>)>>
                ELSE <<Some(<<"1", "0">>), Some(<<"-", "2", ".", "5">>)>>]),
      Frame(<<"id">>, [c \in {"id"} |-> <<Some(<<"1">>), Some(<<"2">>)>>]),
      Frame(<<"id", "amount">>,
            [c \in {"id", "amount"} |->
                IF c = "id" THEN <<Some(<<"1">>), Some(<<"1">>)>>
                ELSE <<Some(<<"x">>), None>>]),
      Frame(<<"id", "amount">>,
            [c \in {"id", "amount"} |->
                IF c = "id" THEN <<Some(<<"1">>), Some(<<"2">>), Some(<<"3">>)>>
                ELSE <<Some(<<"1", ".", "2", ".", "3">>), Some(<<"-", "5">>),
                       Some(<<"1", "-", "2">>)>>]) }

Rules(required, numeric, unique) ==
    [required_columns |-> required, numeric_columns |-> numeric,
     unique_columns |-> unique]

ValidatorRules ==
    { Rules(None, None, None),
      Rules(Some(<<"id", "amount">>), None, None),
      Rules(None, Some(<<"amount">>), None),
      Rules(Some(<<"amount">>), Some(<<"amount">>), Some(<<"id">>)) }

\* DataValidator.__init__: self.errors = [] and self.warnings = []
ValidatorInit ==
    /\ heap = << <<>>, <<>> >>
    /\ selfErrors = 1
    /\ selfWarnings = 2
    /\ returned = <<>>
    /\ TransformIdle
    /\ CleanIdle

\* one call validator.validate(vdf, rules) on the same DataValidator
ValidateCall ==
    /\ Len(returned) < MaxCalls
    /\ \E vdf \in ValidatorFrames, rules \in ValidatorRules :
          LET out == Validate(heap, selfErrors, selfWarnings, vdf, rules) IN
          /\ heap' = out.heap
          /\ selfErrors' = out.errors
          /\ selfWarnings' = out.warnings
          /\ returned' = Append(returned,
                             [df |-> vdf, rules |-> rules, result |-> out.result])
    /\ UNCHANGED <<transformVars, cleanVars>>

ValidatorNext ==
    \/ ValidateCall

SpecValidate == ValidatorInit /\ [][ValidatorNext]_vars

(***************************************************************************)
(* Properties of transform (specification Spec)                            *)
(***************************************************************************)
ConfigValid == Truthy(config.identifier_field) /\ Truthy(config.target_fields)
ScanFinished == pc \in {"final_dataframe", "returned", "raised"} /\ ConfigValid
Rows(g) == 0..(NumRows(g) - 1)
Cols(g) == 0..(NumCols(g) - 1)
TargetFields == SeqRange(config.target_fields.v)
NonEmptyCell(cell) == NotNull(cell) /\ Strip(cell.v) # <<>>
IsEmptyRecord(record) == DOMAIN record = {}

\* C1 (as amended): while and after the scan, the records list holds, in row
\* order, exactly the non-empty records among those _extract_single_record
\* returned at the record-start rows the scan reached; a record start whose
\* window yields no target field contributes no record, and the others one each.
C1_NonEmptyRecordPerStart ==
    ConfigValid =>
        /\ Len(extracted) = Len(visited)
        /\ \A k \in 1..Len(visited) :
              /\ IsRecordStart(Row(work, visited[k]), config)
              /\ k > 1 => visited[k - 1] < visited[k]
        /\ records = SelectSeq(extracted, LAMBDA rec : ~IsEmptyRecord(rec))
        /\ ScanFinished =>
              \A r \in Rows(work) :
                  IsRecordStart(Row(work, r), config) => r \in SeqRange(visited)

\* C1 witness: the scan has ended, it reached two record starts, one gave a
\* record and the other an empty mapping
C1_Witness ==
    /\ ScanFinished
    /\ Len(visited) = 2
    /\ Len(records) = 1
    /\ \E k \in 1..2 : IsEmptyRecord(extracted[k])

\* C1 (as stated): every record start reached contributes exactly one record,
\* an empty mapping included, so there are as many records as starts reached
C1_RecordPerStart ==
    ConfigValid => records = extracted

\* the aliases of the identifier: the keys of field_aliases mapped to it
IdentifierAliases(cfg) ==
    {k \in DOMAIN AliasDict(cfg) : AliasDict(cfg)[k] = cfg.identifier_field.v}

ClaimedRecordStart(row, cfg) ==
    \E c \in 1..Len(row) :
        /\ NotNull(row[c])
        /\ Strip(row[c].v) \in {cfg.identifier_field.v} \cup IdentifierAliases(cfg)

\* C2 (as stated): a row is taken as a record start if and only if some
\* non-null cell, trimmed, equals the identifier field or a key of field_aliases
\* mapped to it; null, empty and whitespace-only cells never make a record start
C2_RecordStartIffIdentifierOrAlias ==
    ScanFinished =>
        \A r \in Rows(work) :
            (r \in SeqRange(visited)) <=> ClaimedRecordStart(Row(work, r), config)

\* the cells of g that hold the identifier field
IdentifierCells(g, cfg) ==
    {rc \in Rows(g) \X Cols(g) :
        /\ NotNull(Cell(g, rc[1], rc[2]))
        /\ Strip(Cell(g, rc[1], rc[2]).v) = cfg.identifier_field.v}

\* field's label is in row r with its value in the cell to the right
LabelledInRow(g, r, field) ==
    \E c \in Cols(g) :
        /\ c + 1 < NumCols(g)
        /\ NotNull(Cell(g, r, c))
        /\ Strip(Cell(g, r, c).v) = field
        /\ NonEmptyCell(Cell(g, r, c + 1))

\* every identifier cell is on a row of its own and is followed within
\* search_radius rows by every target field label with its value to the right
WellFormed(g, cfg) ==
    /\ \A a, b \in IdentifierCells(g, cfg) : a[1] = b[1] => a = b
    /\ \A a \in IdentifierCells(g, cfg) :
          \A k \in 1..Len(cfg.target_fields.v) :
              \E r \in Rows(g) :
                  /\ a[1] <= r
                  /\ r < a[1] + cfg.search_radius
                  /\ LabelledInRow(g, r, cfg.target_fields.v[k])

\* C3 (as stated): a grid (with rows) that holds N well-formed identifier
\* occurrences gives exactly N records, each holding every target field, and no
\* error; N may be 0.  The scan only appends, so it never holds more than N.
C3_WellFormedGridYieldsN ==
    LET N == Cardinality(IdentifierCells(work, config)) IN
    (/\ ConfigValid
     /\ NumRows(work) > 0
     /\ "initial_transformations" \in SeqRange(trace)
     /\ WellFormed(work, config)) =>
        /\ Len(records) <= N
        /\ ScanFinished =>
              /\ Len(records) = N
              /\ \A k \in 1..Len(records) : DOMAIN records[k] = TargetFields
        /\ pc # "raised"
        /\ pc = "returned" => Len(result.rows) = N

\* rows of g that hold a label of the field in some cell
LabelRows(g, field_aliases) ==
    {r \in Rows(g) :
        \E c \in Cols(g) :
            NotNull(Cell(g, r, c)) /\ Strip(Cell(g, r, c).v) \in field_aliases}

\* the rows start_idx .. start_idx + search_radius - 1 that the grid has
Window(g, start_idx, cfg) ==
    {r \in Rows(g) : start_idx <= r /\ r < start_idx + cfg.search_radius}

WindowHits(g, start_idx, field, cfg) ==
    {r \in Window(g, start_idx, cfg) :
        ~FindFieldValue(g, r, FieldAliases(field, cfg), cfg).isNone}

\* C4: the record extracted at a start row holds a target field exactly when
\* some row of the window start..start+search_radius-1 gives it a value, the
\* value is that of the first such row, a field whose labels all lie outside the
\* window has no key at all, and no key holds an empty value.  On the three-row
\* example all three fields are found with search_radius >= 3 and only
\* Customer ID with search_radius = 1.
C4_WindowSearch ==
    ConfigValid =>
        /\ \A k \in 1..Len(extracted) :
              LET rec == extracted[k]
                  start == visited[k]
              IN  /\ DOMAIN rec \subseteq TargetFields
                  /\ \A f \in TargetFields :
                        LET hits == WindowHits(work, start, f, config) IN
                        /\ (f \in DOMAIN rec) <=> (hits # {})
                        /\ hits # {} =>
                              rec[f] = FindFieldValue(work, Min(hits),
                                           FieldAliases(f, config), config).v
                        /\ f \in DOMAIN rec => rec[f] # <<>>
                        /\ LabelRows(work, FieldAliases(f, config))
                              \cap Window(work, start, config) = {}
                              => f \notin DOMAIN rec
        /\ (work = ExampleGrid /\ Len(extracted) >= 1 /\ visited[1] = 0) =>
              /\ config.search_radius >= 3 =>
                    /\ DOMAIN extracted[1] = {CustomerID, Name, Total}
                    /\ extracted[1][CustomerID] = <<"1">>
                    /\ extracted[1][Name] = <<"2">>
                    /\ extracted[1][Total] = <<"5">>
              /\ config.search_radius = 1 =>
                    /\ DOMAIN extracted[1] = {CustomerID}
                    /\ extracted[1][CustomerID] = <<"1">>

\* C4 witness: on the example grid with search_radius = 1 the record holds
\* Customer ID alone, Name and Total lying outside the window
C4_Witness ==
    /\ ScanFinished
    /\ work = ExampleGrid
    /\ config.search_radius = 1
    /\ Len(extracted) >= 1
    /\ DOMAIN extracted[1] = {CustomerID}
    /\ LabelRows(work, FieldAliases(Total, config)) = {2}

\* the three steps of _find_field_value, stated on the grid
LabelCols(g, r, field_aliases) ==
    {c \in Cols(g) :
        NotNull(Cell(g, r, c)) /\ Strip(Cell(g, r, c).v) \in field_aliases}

RightOffsets(g, r, c0, cfg) ==
    {o \in 1..(MinOf(cfg.column_search_radius, NumCols(g) - c0) - 1) :
        NonEmptyCell(Cell(g, r, c0 + o))}

DownRows(g, r, c0, cfg) ==
    {k \in (r + 1)..(MinOf(r + cfg.search_radius, NumRows(g)) - 1) :
        NonEmptyCell(Cell(g, k, c0))}

ExpectedFieldValue(g, r, field_aliases, cfg) ==
    IF LabelCols(g, r, field_aliases) = {} THEN None
    ELSE LET c0 == Min(LabelCols(g, r, field_aliases))
             right == RightOffsets(g, r, c0, cfg)
             down == DownRows(g, r, c0, cfg)
         IN  IF right # {} THEN Some(Strip(Cell(g, r, c0 + Min(right)).v))
             ELSE IF down # {} THEN Some(Strip(Cell(g, Min(down), c0).v))
             ELSE None

\* C5: for every row and every target field, _find_field_value takes the
\* leftmost label column, returns the first trimmed non-empty cell at offsets
\* 1 .. min(column_search_radius, remaining columns)-1 to its right, else the
\* first trimmed non-empty cell below it in rows row+1 ..
\* min(row+search_radius, height)-1, else null; right wins over down
C5_FindFieldValue ==
    ScanFinished =>
        \A r \in Rows(work) : \A f \in TargetFields :
            FindFieldValue(work, r, FieldAliases(f, config), config)
                = ExpectedFieldValue(work, r, FieldAliases(f, config), config)

\* C5 witness: a record was extracted at a row whose label has nothing to its
\* right within column_search_radius and a value below it, which is returned;
\* in the same grid another label has values both to its right and below
C5_Witness ==
    /\ ScanFinished
    /\ \E r \in SeqRange(visited) : \E f \in TargetFields :
          LET fa == FieldAliases(f, config) IN
          /\ LabelCols(work, r, fa) # {}
          /\ RightOffsets(work, r, Min(LabelCols(work, r, fa)), config) = {}
          /\ DownRows(work, r, Min(LabelCols(work, r, fa)), config) # {}
          /\ ~FindFieldValue(work, r, fa, config).isNone
    /\ \E r \in Rows(work) : \E f \in TargetFields :
          LET fa == FieldAliases(f, config) IN
          /\ LabelCols(work, r, fa) # {}
          /\ RightOffsets(work, r, Min(LabelCols(work, r, fa)), config) # {}
          /\ DownRows(work, r, Min(LabelCols(work, r, fa)), config) # {}

\* g with the cell at row r, column c replaced
ReplaceCell(g, r, c, cell) == [g EXCEPT ![r + 1][c + 1] = cell]

\* C6 (as stated): replacing a label cell that holds a canonical field name (a
\* target field or the identifier) by an alias mapped to it leaves the extracted
\* records unchanged
C6_AliasEquivalence ==
    ScanFinished =>
        \A r \in Rows(work) : \A c \in Cols(work) :
            \A a \in DOMAIN AliasDict(config) :
                (/\ NotNull(Cell(work, r, c))
                 /\ Cell(work, r, c).v = AliasDict(config)[a]
                 /\ AliasDict(config)[a] \in
                        TargetFields \cup {config.identifier_field.v})
                => ExtractRecords(ReplaceCell(work, r, c, Some(a)), config) = records

EmptyInputError == "ValueError: Empty DataFrame provided"

\* C7 (as stated): for a grid with zero rows and a valid config, transform ends
\* by raising the input error
C7_EmptyGridRaisesInputError ==
    (NumRows(df) = 0 /\ ConfigValid /\ pc \in {"returned", "raised"}) =>
        (pc = "raised" /\ error = EmptyInputError)

ConfigErrors == {IdentifierError, TargetsError}

\* C8: when identifier_field or target_fields is empty or absent, transform
\* raises a configuration error in its first step: nothing else has run, the
\* grid is as passed in (no row skipped, no column dropped) and no row scanned
C8_ConfigErrorBeforeGrid ==
    (~ConfigValid /\ pc # "validate_config") =>
        /\ pc = "raised"
        /\ error \in ConfigErrors
        /\ trace = <<"validate_config">>
        /\ work = df
        /\ i = 0 /\ records = <<>> /\ visited = <<>>
        /\ result = NoTable

\* C8 witness: target_fields is absent and the config error was raised for a
\* grid of full height, left as it was passed in
C8_Witness ==
    /\ pc = "raised"
    /\ error = TargetsError
    /\ config.target_fields.isNone
    /\ NumRows(df) = MaxRows

(***************************************************************************)
(* Property of _clean_column_names (specification SpecClean)               *)
(***************************************************************************)
\* C9 (as stated): cleaning a cleaned column label again returns the same
\* string as cleaning once
C9_CleanIdempotent ==
    cleanPc = "twice" => twice = once

(***************************************************************************)
(* Property of DataValidator.validate (specification SpecValidate)         *)
(***************************************************************************)
\* the errors one call is to report for its grid and rule set, in rule order
ErrorsFor(vdf, rules) ==
    (IF rules.required_columns.isNone THEN <<>>
     ELSE ValidateRequiredColumns(vdf, rules.required_columns.v))
    \o (IF rules.numeric_columns.isNone THEN <<>>
        ELSE ValidateNumericColumns(vdf, rules.numeric_columns.v, 1))
    \o (IF rules.unique_columns.isNone THEN <<>>
        ELSE ValidateUniqueColumns(vdf, rules.unique_columns.v, 1))

\* C10: after any sequence of validate calls on one DataValidator, every result
\* returned so far has is_valid true exactly when its errors list is empty, and
\* its errors and warnings are those of its own call's grid and rule set: no
\* carry-over from an earlier call, no change by a later one
C10_ResultsPerCall ==
    \A k \in 1..Len(returned) :
        LET r == returned[k] IN
        /\ r.result.is_valid <=> (heap[r.result.errors] = <<>>)
        /\ heap[r.result.errors] = ErrorsFor(r.df, r.rules)
        /\ heap[r.result.warnings] = <<>>

\* C10 witness: a call that reported errors was followed by a call that
\* reported none, and by a third that reported errors again
C10_Witness ==
    /\ Len(returned) >= 3
    /\ ~returned[1].result.is_valid
    /\ returned[2].result.is_valid
    /\ ~returned[3].result.is_valid
    /\ heap[returned[1].result.errors] # heap[returned[3].result.errors]

\* a signed decimal numeral: digits with at most one leading '-' and at most
\* one '.'
SignedDecimal(s) ==
    LET body == IF s # <<>> /\ Head(s) = "-" THEN Tail(s) ELSE s
        dots == {k \in 1..Len(body) : body[k] = "."}
    IN  /\ \A k \in 1..Len(body) : body[k] \in Digits \cup {"."}
        /\ Cardinality(dots) <= 1
        /\ \E k \in 1..Len(body) : body[k] \in Digits

\* the non-numeric errors a result holds for a column
NumericErrors(r, column) ==
    SelectSeq(heap[r.result.errors],
              LAMBDA m : m.kind = "Non-numeric values found" /\ m.column = column)

\* C11 (as stated): under a numeric_columns rule a column is reported exactly
\* when some non-null cell of it is not a signed decimal numeral, and all its
\* violations are in one error that lists their row positions
C11_NumericRuleFlagsNonNumerals ==
    \A k \in 1..Len(returned) :
        LET r == returned[k] IN
        ~r.rules.numeric_columns.isNone =>
            \A column \in SeqRange(r.rules.numeric_columns.v)
                              \cap SeqRange(r.df.columns) :
                LET bad == RowsWhere(r.df.data[column],
                               LAMBDA cells, j : /\ NotNull(cells[j])
                                                 /\ ~SignedDecimal(cells[j].v),
                               1)
                IN  NumericErrors(r, column) =
                        IF bad = <<>> THEN <<>>
                        ELSE <<Message("Non-numeric values found", column, <<>>, bad)>>

(***************************************************************************)
(* Record windows and termination of the scan (specification Spec)         *)
(***************************************************************************)
\* the first row after r that holds the identifier field or an alias of it,
\* the grid height when there is none
NextOccurrence(g, r, cfg) ==
    LET later == {n \in Rows(g) : n > r /\ ClaimedRecordStart(Row(g, n), cfg)}
    IN  IF later = {} THEN NumRows(g) ELSE Min(later)

\* the row whose label gave the field of the record extracted at start
LabelRowOf(g, start, field, cfg) == Min(WindowHits(g, start, field, cfg))

\* the row of the cell that value was read from: the label row when the
\* rightward search found it, else the row the downward search stopped at
ValueRowOf(g, start, field, cfg) ==
    LET lr == LabelRowOf(g, start, field, cfg)
        c0 == Min(LabelCols(g, lr, FieldAliases(field, cfg)))
    IN  IF RightOffsets(g, lr, c0, cfg) # {} THEN lr
        ELSE Min(DownRows(g, lr, c0, cfg))

\* C12 (as stated): every value of the record extracted at an identifier row r
\* comes from the rows r .. next identifier occurrence - 1: neither the label
\* row of a field nor the row a downward search reads lies at or beyond the
\* next identifier row
C12_WindowsDoNotOverlap ==
    ConfigValid =>
        \A k \in 1..Len(extracted) :
            ClaimedRecordStart(Row(work, visited[k]), config) =>
                \A f \in DOMAIN extracted[k] :
                    /\ visited[k] <= LabelRowOf(work, visited[k], f, config)
                    /\ LabelRowOf(work, visited[k], f, config)
                          < NextOccurrence(work, visited[k], config)
                    /\ ValueRowOf(work, visited[k], f, config)
                          < NextOccurrence(work, visited[k], config)

\* one iteration of the while loop of _extract_records
ScanStep == pc = "extract_records" /\ pc' = "extract_records" /\ trace' # trace

\* the iterations of the while loop executed so far
ScanIterations ==
    Cardinality({k \in 1..Len(trace) : trace[k] \in {"record_start", "other_row"}})

\* C13: the scan index never exceeds the grid height, no row is visited as a
\* record start twice, and every iteration strictly increases the index: by one
\* on a row that is no record start, and on a record start to the next record
\* start after it or, when there is none, to the grid height.  So the loop runs
\* at most as many iterations as the index has advanced, which is at most the
\* grid height, and it is left with the index at the grid height.
C13_ScanTerminates ==
    /\ [](/\ i <= NumRows(work)
          /\ ScanIterations <= i
          /\ \A a, b \in 1..Len(visited) : a < b => visited[a] < visited[b]
          /\ pc = "final_dataframe" => i = NumRows(work))
    /\ [][ScanStep =>
            /\ i < i'
            /\ i' <= NumRows(work)
            /\ ~IsRecordStart(Row(work, i), config) => i' = i + 1
            /\ IsRecordStart(Row(work, i), config) =>
                  /\ i \notin SeqRange(visited)
                  /\ i' < NumRows(work) => IsRecordStart(Row(work, i'), config)
                  /\ \A r \in Rows(work) :
                        (i < r /\ r < i') => ~IsRecordStart(Row(work, r), config)]_vars

\* C13 witness: on a grid of full height the scan stepped over a row that is
\* no record start, then took a record start with no later one and jumped over
\* the rows after it to the grid height, and the scan has ended
C13_Witness ==
    /\ pc = "final_dataframe"
    /\ NumRows(work) = MaxRows
    /\ i = NumRows(work)
    /\ Len(visited) >= 1
    /\ visited[1] > 0
    /\ visited[Len(visited)] < NumRows(work) - 1

====
